---- MODULE Spec2Model ----
(***************************************************************************)
(* av1clip: the pipeline orchestration of src/src/av1clip/av1clip.py.      *)
(*                                                                         *)
(* Each invocation of main() is a run.  A run parses its command line,     *)
(* derives the names of its temporary files from an md5 of the arguments,  *)
(* runs mpv to extract a lossless intermediate (unless the intermediate    *)
(* already exists), probes it, resolves the output geometry, and runs the  *)
(* chain ffmpeg | SvtAv1EncApp | ffmpeg.  The runs share one directory     *)
(* (dest_dir = os.getcwd()) and so one file system.                        *)
(*                                                                         *)
(* Optional values (Python's None) are sequences of length 0 or 1:         *)
(* <<>> is None and <<x>> is the value x.                                  *)
(***************************************************************************)
EXTENDS Integers, Sequences, FiniteSets, TLC

VARIABLES
    args,        \* args[r]: the parsed command line of run r (argparse Namespace)
    pc,          \* pc[r]: the statement of main() run r executes next
    fs,          \* the directory: path -> inode (the paths that exist)
    ino,         \* ino[i]: the file that mpv of run i created: its writers and data
    proc,        \* proc[r][p]: the state of external process p of run r
    returncode,  \* returncode[r][p]: Popen.returncode / CompletedProcess.returncode
    pipe_fds,    \* pipe_fds[r]: the pipe read ends the coordinator still holds open
    video,       \* video[r]: the video stream ffprobe reported (<<>> before the probe)
    geom,        \* geom[r]: video_width, video_height and scale after lines 169-190
    outcome,     \* outcome[r]: "none", "Succeeded" or "Failed"
    exitcode,    \* exitcode[r]: exit status of the python process (<<>> while it runs)
    error,       \* error[r]: what ended the run ("" when nothing did)
    cache_hit,   \* cache_hit[r]: what os.path.exists(temp_file) returned at line 135
    launched,    \* launched[r]: the external processes run r has started so far
    waited,      \* waited[r]: the handles run r has called wait/communicate on
    renamed,     \* renamed[r]: run r has executed os.rename successfully
    prior,       \* prior[r]: the runs that had ended when run r began
    disposal,    \* disposal[r]: "kept" / "deleted" once the prompt was answered
    pipes        \* pipes[r]: the two pipes of run r's chain and what is in them

vars == <<args, pc, fs, ino, proc, returncode, pipe_fds, video, geom, outcome,
          exitcode, error, cache_hit, launched, waited, renamed, prior, disposal,
          pipes>>

\* The invocations of the program that the model follows.
Runs == {1, 2}

\* ------------------------------------------------------------------ bounds
\* Largest pixel width/height of a probed stream and of a -sw/-sh target.
MaxDim == 5
\* Largest numerator/denominator of the probed sample aspect ratio.
MaxSar == 3
\* Most video frames an intermediate holds, and the capacity of a pipe (in
\* frames / packets).
MaxFrames == 6
PipeCap == 2

\* ------------------------------------------------------- program constants
AUDIO_BITRATE == [n |-> 256, k |-> TRUE]     \* "256k"
SVTAV1_CRF == 30
SVTAV1_PRESET == 3

None == <<>>
Some(x) == <<x>>
\* Python truthiness of an optional integer: None and 0 are false.
TruthyInt(o) == o # None /\ o[1] # 0
\* str() of an optional integer / string inside an f-string.
StrInt(o) == IF o = None THEN "None" ELSE ToString(o[1])
StrStr(o) == IF o = None THEN "None" ELSE o[1]

\* ------------------------------------------------------------ command line

\* check_positive_int: int(value), rejected when negative (0 is accepted).
BadPositiveInt(value) == value < 0
\* check_opus_bitrate: a trailing "k" is replaced by "000"; the integer must lie
\* in 500..512000; the (rewritten) string is returned.  The raw option is
\* [n, k]: the digits and whether a "k" follows.
BadOpusBitrate(raw) ==
    LET ivalue == IF raw.k THEN raw.n * 1000 ELSE raw.n
    IN ivalue < 500 \/ ivalue > 512000
check_opus_bitrate(raw) ==
    IF raw.k THEN ToString(raw.n) \o "000" ELSE ToString(raw.n)

\* A command line as typed; parse_args turns it into args.
DefaultCmd ==
    [input_file |-> "a.mkv", start |-> None, end |-> None,
     vid |-> "auto", aid |-> "auto", sid |-> "auto",
     width |-> None, height |-> None, audio_bitrate |-> AUDIO_BITRATE,
     crf |-> SVTAV1_CRF, preset |-> SVTAV1_PRESET]

\* argparse rejects the command line (exit status 2 before main's own code).
Rejected(cmd) ==
    \/ cmd.width # None /\ BadPositiveInt(cmd.width[1])
    \/ cmd.height # None /\ BadPositiveInt(cmd.height[1])
    \/ BadOpusBitrate(cmd.audio_bitrate)
    \/ cmd.crf \notin 0..63
    \/ cmd.preset \notin 0..8

parse_args(cmd) == [cmd EXCEPT !.audio_bitrate = check_opus_bitrate(@)]

\* The paths that are regular files (os.path.isfile).
RegularFiles == {"a.mkv", "b.mkv"}

\* ------------------------------------------------------------- fingerprint

\* The string that is hashed (lines 112-113).
argstr(a) ==
    a.input_file \o ".v" \o a.vid \o "a" \o a.aid \o "s" \o a.sid
        \o "w" \o StrInt(a.width) \o "h" \o StrInt(a.height)
        \o "ab" \o a.audio_bitrate
        \o "start" \o StrStr(a.start) \o "end" \o StrStr(a.end)
\* hashlib.md5(...).hexdigest(): a collision-free digest, identified with the
\* string it digests (equal digests iff equal strings).
argstr_md5(a) == argstr(a)
temp_file_base(a) == "av1clip-" \o argstr_md5(a) \o "-"
temp_file_processing(a) == temp_file_base(a) \o "processing.mkv"
temp_file(a) == temp_file_base(a) \o "temp.mkv"

\* ------------------------------------------------------------- file system
exists(path) == path \in DOMAIN fs
FsCreate(f, path, i) == [p \in DOMAIN f \cup {path} |-> IF p = path THEN i ELSE f[p]]
FsRemove(f, path) == [p \in DOMAIN f \ {path} |-> f[p]]
\* POSIX rename: the name src goes away, dst names src's file (replacing any).
FsRename(f, src, dst) ==
    [p \in (DOMAIN f \ {src}) \cup {dst} |-> IF p = dst THEN f[src] ELSE f[p]]
\* Some mpv still has the file at this path open for writing.
BeingWritten(path) == exists(path) /\ ino[fs[path]].writers # {}

\* -------------------------------------------------------------- geometry
\* round that cuts the fraction off (int() in place of round()).
roundTruncated(n, d) == n \div d

\* Python's round() on a non-negative quotient n/d: nearest, ties to even.
round(n, d) ==
    LET q == n \div d
        r == n % d
    IN IF 2 * r < d THEN q
       ELSE IF 2 * r > d THEN q + 1
       ELSE IF q % 2 = 0 THEN q ELSE q + 1

\* Lines 176-183: dimensions for a 1/1 sample aspect ratio.
\* v: the probed stream [width, height, sar_num, sar_den].
SarCorrected(v) ==
    IF v.sar_num = v.sar_den
    THEN [video_width |-> v.width, video_height |-> v.height, scale |-> FALSE]
    ELSE IF v.sar_num < v.sar_den
    THEN [video_width |-> v.width,
          video_height |-> round(v.height * v.sar_den, v.sar_num), scale |-> TRUE]
    ELSE [video_width |-> round(v.width * v.sar_num, v.sar_den),
          video_height |-> v.height, scale |-> TRUE]

\* UserScaled with max in place of min at line 187.
UserScaledMax(g, width, height) ==
    IF TruthyInt(width) \/ TruthyInt(height)
    THEN LET tw == IF TruthyInt(width) THEN width[1] ELSE g.video_width
             th == IF TruthyInt(height) THEN height[1] ELSE g.video_height
             byWidth == tw * g.video_height >= th * g.video_width
             fn == IF byWidth THEN tw ELSE th
             fd == IF byWidth THEN g.video_width ELSE g.video_height
         IN [video_width |-> round(g.video_width * fn, fd),
             video_height |-> round(g.video_height * fn, fd),
             scale |-> TRUE]
    ELSE g

\* Lines 185-190: the user's scale.  factor is the smaller of the two ratios,
\* kept as the fraction fn/fd.
UserScaled(g, width, height) ==
    IF TruthyInt(width) \/ TruthyInt(height)
    THEN LET tw == IF TruthyInt(width) THEN width[1] ELSE g.video_width
             th == IF TruthyInt(height) THEN height[1] ELSE g.video_height
             byWidth == tw * g.video_height <= th * g.video_width
             fn == IF byWidth THEN tw ELSE th
             fd == IF byWidth THEN g.video_width ELSE g.video_height
         IN [video_width |-> round(g.video_width * fn, fd),
             video_height |-> round(g.video_height * fn, fd),
             scale |-> TRUE]
    ELSE g

\* Lines 169-190.
Resolve(v, width, height) == UserScaled(SarCorrected(v), width, height)


\* ------------------------------------------------------------- processes
\* The external processes a run holds a handle on.
Procs == {"mpv", "yuvpipe", "enc", "mux"}
ExitCodes == {0, 1}
Exited(code) == IF code = 0 THEN "exit0" ELSE "exit1"
HasExited(st) == st \in {"exit0", "exit1"}
CodeOf(st) == IF st = "exit0" THEN 0 ELSE 1

\* What the user types at "Keep temp file? [y/N] " (a sequence of characters).
Answers == {<<>>, <<"y">>, <<"Y", "e", "s">>, <<"n">>}
lower(c) == IF c = "Y" THEN "y" ELSE IF c = "N" THEN "n" ELSE c
\* Line 247: not answer or answer[0].lower() != "y".
DeleteTemp(answer) == answer = <<>> \/ lower(answer[1]) # "y"

\* --------------------------------------------------------------- control
Goto(r, label) == pc' = [pc EXCEPT ![r] = label]

\* exit(code) / an uncaught exception: the python process ends.  A run that
\* had not printed "Encode complete" ends Failed.
exit(r, code, err) ==
    /\ pc' = [pc EXCEPT ![r] = "done"]
    /\ exitcode' = [exitcode EXCEPT ![r] = Some(code)]
    /\ error' = [error EXCEPT ![r] = err]
    /\ outcome' = [outcome EXCEPT ![r] = IF @ = "none" THEN "Failed" ELSE @]

\* An exception nothing catches: traceback, exit status 1.
Raise(r, exception) == exit(r, 1, exception)

Launch(r, ps) == launched' = [launched EXCEPT ![r] = @ \cup ps]

\* ------------------------------------------------------------------ Init
\* cmds[r]: the command lines run r may be given; argparse lets through those
\* it does not reject.
Parsed(cmds) == {parse_args(c) : c \in {c \in cmds : ~Rejected(c)}}
\* frames[r]: the numbers of video frames the intermediate of run r may hold.
InitFrames(cmds, frames) ==
    /\ args \in [Runs -> Parsed(UNION {cmds[r] : r \in Runs})]
    /\ \A r \in Runs : args[r] \in Parsed(cmds[r])
    /\ pc = [r \in Runs |-> "idle"]
    /\ fs = [p \in {} |-> 1]
    /\ ino = [i \in Runs |-> [writers |-> {}, data |-> "none"]]
    /\ proc = [r \in Runs |-> [p \in Procs |-> "none"]]
    /\ returncode = [r \in Runs |-> [p \in Procs |-> None]]
    /\ pipe_fds = [r \in Runs |-> {}]
    /\ video = [r \in Runs |-> None]
    /\ geom = [r \in Runs |-> [video_width |-> 0, video_height |-> 0, scale |-> FALSE]]
    /\ outcome = [r \in Runs |-> "none"]
    /\ exitcode = [r \in Runs |-> None]
    /\ error = [r \in Runs |-> ""]
    /\ cache_hit = [r \in Runs |-> "unknown"]
    /\ launched = [r \in Runs |-> {}]
    /\ waited = [r \in Runs |-> {}]
    /\ renamed = [r \in Runs |-> FALSE]
    /\ prior = [r \in Runs |-> {}]
    /\ disposal = [r \in Runs |-> "none"]
    /\ pipes \in [Runs -> [frames : UNION {frames[r] : r \in Runs},
                          yuv : {0}, held : {0}, ivf : {0}]]
    /\ \A r \in Runs : pipes[r].frames \in frames[r]
\* The specifications that do not follow the data through the pipes.
InitWith(cmds) == InitFrames(cmds, [r \in Runs |-> {0}])

\* ------------------------------------------------- main(): lines 102-161

\* Begin without the os.path.isfile test of lines 104-106.
BeginUnchecked(r) ==
    /\ pc[r] = "idle"
    /\ prior' = [prior EXCEPT ![r] = {q \in Runs : pc[q] = "done"}]
    /\ Goto(r, "versions")
    /\ UNCHANGED <<args, pipes, disposal, fs, ino, proc, returncode, pipe_fds, video, geom,
                   cache_hit, launched, waited, renamed, outcome, exitcode, error>>

\* Lines 102-106: the run starts; the input must be a regular file.
Begin(r) ==
    /\ pc[r] = "idle"
    /\ prior' = [prior EXCEPT ![r] = {q \in Runs : pc[q] = "done"}]
    /\ IF args[r].input_file \notin RegularFiles
       THEN exit(r, 2, "not a file")
       ELSE Goto(r, "versions") /\ UNCHANGED <<outcome, exitcode, error>>
    /\ UNCHANGED <<args, pipes, disposal, fs, ino, proc, returncode, pipe_fds, video, geom,
                   cache_hit, launched, waited, renamed>>

\* Lines 108-110: the three version queries (get_output).
Versions(r) ==
    /\ pc[r] = "versions"
    /\ Launch(r, {"mpv --version", "ffmpeg -version", "SvtAv1EncApp --version"})
    /\ Goto(r, "check_cache")
    /\ UNCHANGED <<args, pipes, disposal, fs, ino, proc, returncode, pipe_fds, video, geom, outcome,
                   exitcode, error, cache_hit, waited, renamed, prior>>

\* CheckCache without the skip of line 135: mpv is run whether or not the
\* temp file exists.
CheckCacheAlwaysExtract(r) ==
    /\ pc[r] = "check_cache"
    /\ cache_hit' = [cache_hit EXCEPT ![r] =
                       IF exists(temp_file(args[r])) THEN "hit" ELSE "miss"]
    /\ Goto(r, "run_mpv")
    /\ UNCHANGED <<args, pipes, disposal, fs, ino, proc, returncode, pipe_fds, video, geom,
                   outcome, exitcode, error, launched, waited, renamed, prior>>

\* Line 135: skip creating temp_file if it already exists.
CheckCache(r) ==
    /\ pc[r] = "check_cache"
    /\ IF exists(temp_file(args[r]))
       THEN cache_hit' = [cache_hit EXCEPT ![r] = "hit"] /\ Goto(r, "probe")
       ELSE cache_hit' = [cache_hit EXCEPT ![r] = "miss"] /\ Goto(r, "run_mpv")
    /\ UNCHANGED <<args, pipes, disposal, fs, ino, proc, returncode, pipe_fds, video, geom, outcome,
                   exitcode, error, launched, waited, renamed, prior>>

\* Line 157: subprocess.run(mpv_cmd) starts mpv, then blocks until it exits.
RunMpv(r) ==
    /\ pc[r] = "run_mpv"
    /\ proc' = [proc EXCEPT ![r]["mpv"] = "running"]
    /\ Launch(r, {"mpv"})
    /\ Goto(r, "wait_mpv")
    /\ UNCHANGED <<args, pipes, disposal, fs, ino, returncode, pipe_fds, video, geom, outcome,
                   exitcode, error, cache_hit, waited, renamed, prior>>

\* mpv opens its output --o=temp_file_processing (line 143): create, or
\* truncate the file already under that name; another writer of that file
\* keeps writing into it.
MpvOpen(r) ==
    /\ proc[r]["mpv"] = "running"
    /\ proc' = [proc EXCEPT ![r]["mpv"] = "writing"]
    /\ LET path == temp_file_processing(args[r])
       IN IF exists(path)
          THEN /\ ino' = [ino EXCEPT ![fs[path]] =
                            [writers |-> @.writers \cup {r},
                             data |-> IF @.writers = {} THEN "partial" ELSE "corrupt"]]
               /\ fs' = fs
          ELSE /\ ino' = [ino EXCEPT ![r] = [writers |-> {r}, data |-> "partial"]]
               /\ fs' = FsCreate(fs, path, r)
    /\ UNCHANGED <<args, pipes, disposal, pc, returncode, pipe_fds, video, geom, outcome, exitcode,
                   error, cache_hit, launched, waited, renamed, prior>>

\* mpv terminates: with a failure at any time, with success only after it has
\* written its whole output.  It may also never terminate.
MpvExit(r) ==
    \E code \in ExitCodes :
        /\ \/ proc[r]["mpv"] = "running" /\ code # 0 /\ ino' = ino
           \/ /\ proc[r]["mpv"] = "writing"
              /\ ino' = [i \in Runs |->
                           IF r \in ino[i].writers
                           THEN [writers |-> ino[i].writers \ {r},
                                 data |-> IF code = 0 /\ ino[i].data = "partial"
                                          THEN "complete" ELSE ino[i].data]
                           ELSE ino[i]]
        /\ proc' = [proc EXCEPT ![r]["mpv"] = Exited(code)]
        /\ UNCHANGED <<args, pipes, disposal, pc, fs, returncode, pipe_fds, video, geom, outcome,
                       exitcode, error, cache_hit, launched, waited, renamed, prior>>

\* MpvReturn without the check of lines 158-160: the rename follows whatever
\* mpv returned.
MpvReturnUnchecked(r) ==
    /\ pc[r] = "wait_mpv"
    /\ HasExited(proc[r]["mpv"])
    /\ returncode' = [returncode EXCEPT ![r]["mpv"] = Some(CodeOf(proc[r]["mpv"]))]
    /\ waited' = [waited EXCEPT ![r] = @ \cup {"mpv"}]
    /\ Goto(r, "rename")
    /\ UNCHANGED <<args, pipes, disposal, fs, ino, proc, pipe_fds, video, geom, cache_hit,
                   launched, renamed, prior, outcome, exitcode, error>>

\* Lines 157-160: subprocess.run returns once mpv has exited (no timeout).
MpvReturn(r) ==
    /\ pc[r] = "wait_mpv"
    /\ HasExited(proc[r]["mpv"])
    /\ returncode' = [returncode EXCEPT ![r]["mpv"] = Some(CodeOf(proc[r]["mpv"]))]
    /\ waited' = [waited EXCEPT ![r] = @ \cup {"mpv"}]
    /\ IF CodeOf(proc[r]["mpv"]) # 0
       THEN exit(r, 1, "Error creating temp file with mpv")
       ELSE Goto(r, "rename") /\ UNCHANGED <<outcome, exitcode, error>>
    /\ UNCHANGED <<args, pipes, disposal, fs, ino, proc, pipe_fds, video, geom, cache_hit, launched,
                   renamed, prior>>

\* Rename without the os.rename: main goes on to the probe with the file
\* still under its in-progress name.
RenameSkipped(r) ==
    /\ pc[r] = "rename"
    /\ Goto(r, "probe")
    /\ UNCHANGED <<args, pipes, disposal, ino, proc, returncode, pipe_fds, video, geom, cache_hit,
                   launched, waited, prior, fs, renamed, outcome, exitcode, error>>

\* Line 161: os.rename(temp_file_processing, temp_file).
Rename(r) ==
    /\ pc[r] = "rename"
    /\ IF exists(temp_file_processing(args[r]))
       THEN /\ fs' = FsRename(fs, temp_file_processing(args[r]), temp_file(args[r]))
            /\ renamed' = [renamed EXCEPT ![r] = TRUE]
            /\ Goto(r, "probe")
            /\ UNCHANGED <<outcome, exitcode, error>>
       ELSE /\ Raise(r, "FileNotFoundError")
            /\ UNCHANGED <<fs, renamed>>
    /\ UNCHANGED <<args, pipes, disposal, ino, proc, returncode, pipe_fds, video, geom, cache_hit,
                   launched, waited, prior>>


\* ------------------------------------------------- main(): lines 163-224

\* Lines 163-172: ffprobe(temp_file) and the first video stream.  Without the
\* file ffprobe prints no "streams" and data["streams"] raises KeyError; a
\* file that is not a complete intermediate may or may not be readable.
\* streams: the video streams the intermediate of this source can hold.
Probe(r, streams) ==
    /\ pc[r] = "probe"
    /\ Launch(r, {"ffprobe"})
    /\ IF ~exists(temp_file(args[r]))
       THEN Raise(r, "KeyError") /\ video' = video
       ELSE \E v \in streams :
            \E readable \in IF ino[fs[temp_file(args[r])]].data = "complete"
                            THEN {TRUE} ELSE BOOLEAN :
                IF readable
                THEN /\ video' = [video EXCEPT ![r] = Some(v)]
                     /\ Goto(r, "resolve")
                     /\ UNCHANGED <<outcome, exitcode, error>>
                ELSE Raise(r, "KeyError") /\ video' = video
    /\ UNCHANGED <<args, pipes, disposal, fs, ino, proc, returncode, pipe_fds, geom, cache_hit,
                   waited, renamed, prior>>

\* Lines 169-190: the output dimensions and whether to scale.
Resolving(r) ==
    /\ pc[r] = "resolve"
    /\ geom' = [geom EXCEPT ![r] = Resolve(video[r][1], args[r].width, args[r].height)]
    /\ Goto(r, "popen_yuvpipe")
    /\ UNCHANGED <<args, pipes, disposal, fs, ino, proc, returncode, pipe_fds, video, outcome,
                   exitcode, error, cache_hit, launched, waited, renamed, prior>>

\* ffmpeg_yuvpipe_cmd with the scale filter put in unconditionally.
ffmpeg_yuvpipe_cmdAlwaysScaled(a, g) ==
    [i |-> temp_file(a),
     vf |-> Some([w |-> g.video_width, h |-> g.video_height])]

\* Lines 193-196: the front-end's command; the scale filter only when scale.
ffmpeg_yuvpipe_cmd(a, g) ==
    [i |-> temp_file(a),
     vf |-> IF g.scale THEN Some([w |-> g.video_width, h |-> g.video_height])
            ELSE None]
\* Lines 198-208: the encoder's command.
svtav1_cmd(a, g) ==
    [preset |-> a.preset, crf |-> a.crf, w |-> g.video_width, h |-> g.video_height]

\* ------------------------------------------------- main(): lines 226-253

\* Line 227: yuvpipe = Popen(ffmpeg_yuvpipe_cmd, stdout=PIPE).
PopenYuvpipe(r) ==
    /\ pc[r] = "popen_yuvpipe"
    /\ proc' = [proc EXCEPT ![r]["yuvpipe"] = "running"]
    /\ Launch(r, {"yuvpipe"})
    /\ pipe_fds' = [pipe_fds EXCEPT ![r] = @ \cup {"yuvpipe.stdout"}]
    /\ Goto(r, "popen_enc")
    /\ UNCHANGED <<args, pipes, disposal, fs, ino, returncode, video, geom, outcome, exitcode, error,
                   cache_hit, waited, renamed, prior>>

\* Line 229: enc = Popen(svtav1_cmd, stdin=yuvpipe.stdout, stdout=PIPE).
PopenEnc(r) ==
    /\ pc[r] = "popen_enc"
    /\ proc' = [proc EXCEPT ![r]["enc"] = "running"]
    /\ Launch(r, {"enc"})
    /\ pipe_fds' = [pipe_fds EXCEPT ![r] = @ \cup {"enc.stdout"}]
    /\ Goto(r, "popen_mux")
    /\ UNCHANGED <<args, pipes, disposal, fs, ino, returncode, video, geom, outcome, exitcode, error,
                   cache_hit, waited, renamed, prior>>

\* Line 231: mux = Popen(ffmpeg_mux_cmd, stdin=enc.stdout).
PopenMux(r) ==
    /\ pc[r] = "popen_mux"
    /\ proc' = [proc EXCEPT ![r]["mux"] = "running"]
    /\ Launch(r, {"mux"})
    /\ Goto(r, "close_yuvpipe")
    /\ UNCHANGED <<args, pipes, disposal, fs, ino, returncode, pipe_fds, video, geom, outcome,
                   exitcode, error, cache_hit, waited, renamed, prior>>

\* CloseYuvpipeStdout without the close: main keeps its copy of the read end
\* of the front-end's output pipe.
CloseYuvpipeStdoutSkipped(r) ==
    /\ pc[r] = "close_yuvpipe"
    /\ Goto(r, "close_enc")
    /\ UNCHANGED <<args, pipes, disposal, fs, ino, proc, returncode, video, geom, outcome,
                   exitcode, error, cache_hit, launched, waited, renamed, prior, pipe_fds>>

\* Line 233: yuvpipe.stdout.close().
CloseYuvpipeStdout(r) ==
    /\ pc[r] = "close_yuvpipe"
    /\ pipe_fds' = [pipe_fds EXCEPT ![r] = @ \ {"yuvpipe.stdout"}]
    /\ Goto(r, "close_enc")
    /\ UNCHANGED <<args, pipes, disposal, fs, ino, proc, returncode, video, geom, outcome, exitcode,
                   error, cache_hit, launched, waited, renamed, prior>>

\* CloseEncStdout without the close: main keeps its copy of the read end of
\* the encoder's output pipe.
CloseEncStdoutSkipped(r) ==
    /\ pc[r] = "close_enc"
    /\ Goto(r, "communicate")
    /\ UNCHANGED <<args, pipes, disposal, fs, ino, proc, returncode, video, geom, outcome, exitcode,
                   error, cache_hit, launched, waited, renamed, prior, pipe_fds>>

\* Line 234: enc.stdout.close().
CloseEncStdout(r) ==
    /\ pc[r] = "close_enc"
    /\ pipe_fds' = [pipe_fds EXCEPT ![r] = @ \ {"enc.stdout"}]
    /\ Goto(r, "communicate")
    /\ UNCHANGED <<args, pipes, disposal, fs, ino, proc, returncode, video, geom, outcome, exitcode,
                   error, cache_hit, launched, waited, renamed, prior>>

\* A stage process terminates with some exit status (or never does).
StageExit(r, p) ==
    /\ p \in {"yuvpipe", "enc", "mux"}
    /\ proc[r][p] = "running"
    /\ \E code \in ExitCodes : proc' = [proc EXCEPT ![r][p] = Exited(code)]
    /\ UNCHANGED <<args, pipes, disposal, pc, fs, ino, returncode, pipe_fds, video, geom, outcome,
                   exitcode, error, cache_hit, launched, waited, renamed, prior>>

\* ---- the chain ffmpeg | SvtAv1EncApp | ffmpeg of lines 193-232
\* pipes[r].frames: frames the front-end has yet to write; .yuv: frames in the
\* pipe front-end -> encoder; .held: the packet the encoder has read and not
\* yet written; .ivf: packets in the pipe encoder -> muxer.
Alive(r, p) == proc[r][p] = "running"
\* main() still holds its copy of a pipe's read end (until it closes it or
\* the python process ends).
ParentHolds(r, fd) == fd \in pipe_fds[r] /\ pc[r] # "done"
\* Some process has the read end of the pipe open.
YuvReaders(r) == Alive(r, "enc") \/ ParentHolds(r, "yuvpipe.stdout")
IvfReaders(r) == Alive(r, "mux") \/ ParentHolds(r, "enc.stdout")
StageExits(r, p, code) == proc' = [proc EXCEPT ![r][p] = Exited(code)]
StageFrame ==
    <<args, disposal, pc, fs, ino, returncode, pipe_fds, video, geom, outcome,
      exitcode, error, cache_hit, launched, waited, renamed, prior>>

\* The front-end (ffmpeg ... -f yuv4mpegpipe -, lines 193-196, 227): writes
\* its frames to stdout, blocks while the pipe is full, is killed by SIGPIPE
\* when nobody has the read end open, exits with 0 after the last frame.
YuvpipeStep(r) ==
    /\ Alive(r, "yuvpipe")
    /\ IF pipes[r].frames = 0
       THEN StageExits(r, "yuvpipe", 0) /\ pipes' = pipes
       ELSE IF ~YuvReaders(r)
       THEN StageExits(r, "yuvpipe", 1) /\ pipes' = pipes
       ELSE /\ pipes[r].yuv < PipeCap
            /\ pipes' = [pipes EXCEPT ![r].frames = @ - 1, ![r].yuv = @ + 1]
            /\ proc' = proc
    /\ UNCHANGED StageFrame

\* The encoder (SvtAv1EncApp -i stdin -b stdout, lines 198-208, 229): reads a
\* frame, writes a packet; exits with 0 at end-of-stream (the pipe is empty
\* and the front-end has gone), with a failure on a broken pipe.
EncStep(r) ==
    /\ Alive(r, "enc")
    /\ IF pipes[r].held = 0
       THEN IF pipes[r].yuv > 0
            THEN /\ pipes' = [pipes EXCEPT ![r].yuv = @ - 1, ![r].held = 1]
                 /\ proc' = proc
            ELSE /\ ~Alive(r, "yuvpipe")
                 /\ StageExits(r, "enc", 0) /\ pipes' = pipes
       ELSE IF ~IvfReaders(r)
       THEN StageExits(r, "enc", 1) /\ pipes' = pipes
       ELSE /\ pipes[r].ivf < PipeCap
            /\ pipes' = [pipes EXCEPT ![r].held = 0, ![r].ivf = @ + 1]
            /\ proc' = proc
    /\ UNCHANGED StageFrame

\* The muxer (ffmpeg -i - ..., lines 210-224, 231): reads packets from stdin
\* and writes the output file; exits with 0 at end-of-stream.
MuxStep(r) ==
    /\ Alive(r, "mux")
    /\ IF pipes[r].ivf > 0
       THEN pipes' = [pipes EXCEPT ![r].ivf = @ - 1] /\ proc' = proc
       ELSE /\ ~Alive(r, "enc")
            /\ StageExits(r, "mux", 0) /\ pipes' = pipes
    /\ UNCHANGED StageFrame

\* Line 235: mux.communicate() returns once mux has exited (no timeout).
MuxCommunicate(r) ==
    /\ pc[r] = "communicate"
    /\ HasExited(proc[r]["mux"])
    /\ returncode' = [returncode EXCEPT ![r]["mux"] = Some(CodeOf(proc[r]["mux"]))]
    /\ waited' = [waited EXCEPT ![r] = @ \cup {"mux"}]
    /\ Goto(r, "wait_yuvpipe")
    /\ UNCHANGED <<args, pipes, disposal, fs, ino, proc, pipe_fds, video, geom, outcome, exitcode,
                   error, cache_hit, launched, renamed, prior>>

\* WaitTimeout with the timeout caught and ignored: main goes on to its next
\* statement with returncode still None.
WaitTimeoutSwallowed(r, p, next) ==
    /\ waited' = [waited EXCEPT ![r] = @ \cup {p}]
    /\ returncode' = [returncode EXCEPT ![r][p] =
                        IF HasExited(proc[r][p]) THEN Some(CodeOf(proc[r][p])) ELSE None]
    /\ Goto(r, next)
    /\ UNCHANGED <<args, pipes, disposal, fs, ino, proc, pipe_fds, video, geom, cache_hit,
                   launched, renamed, prior, outcome, exitcode, error>>

\* handle.wait(10): returns the exit status of a process that has exited; on a
\* process still running after the 10 seconds it raises TimeoutExpired, which
\* nothing catches.
WaitTimeout(r, p, next) ==
    /\ waited' = [waited EXCEPT ![r] = @ \cup {p}]
    /\ IF HasExited(proc[r][p])
       THEN /\ returncode' = [returncode EXCEPT ![r][p] = Some(CodeOf(proc[r][p]))]
            /\ Goto(r, next)
            /\ UNCHANGED <<outcome, exitcode, error>>
       ELSE /\ Raise(r, "TimeoutExpired")
            /\ returncode' = returncode
    /\ UNCHANGED <<args, pipes, disposal, fs, ino, proc, pipe_fds, video, geom, cache_hit, launched,
                   renamed, prior>>

\* Line 236: yuvpipe.wait(10).
YuvpipeWait(r) == pc[r] = "wait_yuvpipe" /\ WaitTimeout(r, "yuvpipe", "wait_enc")

\* Line 237: enc.wait(10).
EncWait(r) == pc[r] = "wait_enc" /\ WaitTimeout(r, "enc", "check_returncodes")

\* AllZero looking at the muxer alone.
AllZeroMuxOnly(rc) == rc["mux"] = Some(0)

\* Lines 239-244: all three exit statuses must be 0.
AllZero(rc) == rc["yuvpipe"] = Some(0) /\ rc["enc"] = Some(0) /\ rc["mux"] = Some(0)
\* CheckReturncodes that removes the temp file before it exits on a failure.
CheckReturncodesCleanup(r) ==
    /\ pc[r] = "check_returncodes"
    /\ IF AllZero(returncode[r])
       THEN /\ outcome' = [outcome EXCEPT ![r] = "Succeeded"]
            /\ Goto(r, "keep_prompt")
            /\ UNCHANGED <<exitcode, error, fs>>
       ELSE /\ exit(r, 1, "Error during encode")
            /\ fs' = FsRemove(fs, temp_file(args[r]))
    /\ UNCHANGED <<args, pipes, disposal, ino, proc, returncode, pipe_fds, video, geom,
                   cache_hit, launched, waited, renamed, prior>>

CheckReturncodes(r) ==
    /\ pc[r] = "check_returncodes"
    /\ IF AllZero(returncode[r])
       THEN /\ outcome' = [outcome EXCEPT ![r] = "Succeeded"]
            /\ Goto(r, "keep_prompt")
            /\ UNCHANGED <<exitcode, error>>
       ELSE exit(r, 1, "Error during encode")
    /\ UNCHANGED <<args, pipes, disposal, fs, ino, proc, returncode, pipe_fds, video, geom, cache_hit,
                   launched, waited, renamed, prior>>

\* KeepTempPrompt without the os.remove of line 249.
KeepTempPromptNoRemove(r) ==
    /\ pc[r] = "keep_prompt"
    /\ \E eof \in BOOLEAN : \E answer \in IF eof THEN {<<>>} ELSE Answers :
        IF eof
        THEN Raise(r, "EOFError") /\ UNCHANGED <<fs, disposal>>
        ELSE /\ fs' = fs
             /\ disposal' = [disposal EXCEPT ![r] =
                                IF DeleteTemp(answer) THEN "deleted" ELSE "kept"]
             /\ pc' = [pc EXCEPT ![r] = "done"]
             /\ exitcode' = [exitcode EXCEPT ![r] = Some(0)]
             /\ UNCHANGED <<outcome, error>>
    /\ UNCHANGED <<args, pipes, ino, proc, returncode, pipe_fds, video, geom, cache_hit,
                   launched, waited, renamed, prior>>

\* Lines 246-253 and 257: the prompt; the temp file is removed unless the
\* answer starts with y/Y; main returns None and the process exits with 0.
\* input() raises EOFError on a closed stdin, os.remove raises
\* FileNotFoundError when the file is gone.
KeepTempPrompt(r) ==
    /\ pc[r] = "keep_prompt"
    /\ \E eof \in BOOLEAN : \E answer \in IF eof THEN {<<>>} ELSE Answers :
        IF eof
        THEN Raise(r, "EOFError") /\ UNCHANGED <<fs, disposal>>
        ELSE IF DeleteTemp(answer) /\ ~exists(temp_file(args[r]))
        THEN Raise(r, "FileNotFoundError") /\ UNCHANGED <<fs, disposal>>
        ELSE /\ fs' = IF DeleteTemp(answer) THEN FsRemove(fs, temp_file(args[r])) ELSE fs
             /\ disposal' = [disposal EXCEPT ![r] =
                                IF DeleteTemp(answer) THEN "deleted" ELSE "kept"]
             /\ pc' = [pc EXCEPT ![r] = "done"]
             /\ exitcode' = [exitcode EXCEPT ![r] = Some(0)]
             /\ UNCHANGED <<outcome, error>>
    /\ UNCHANGED <<args, pipes, ino, proc, returncode, pipe_fds, video, geom, cache_hit,
                   launched, waited, renamed, prior>>

\* -------------------------------------------------------- specifications
\* Every step of run r but its start; streams: what the probe may report.
Step(r, streams) ==
    \/ Versions(r)
    \/ CheckCache(r)
    \/ RunMpv(r)
    \/ MpvOpen(r)
    \/ MpvExit(r)
    \/ MpvReturn(r)
    \/ Rename(r)
    \/ Probe(r, streams)
    \/ Resolving(r)
    \/ PopenYuvpipe(r)
    \/ PopenEnc(r)
    \/ PopenMux(r)
    \/ CloseYuvpipeStdout(r)
    \/ CloseEncStdout(r)
    \/ \E p \in Procs : StageExit(r, p)
    \/ MuxCommunicate(r)
    \/ YuvpipeWait(r)
    \/ EncWait(r)
    \/ CheckReturncodes(r)
    \/ KeepTempPrompt(r)

MainCmds ==
    {DefaultCmd,
     [DefaultCmd EXCEPT !.width = Some(2)],
     [DefaultCmd EXCEPT !.input_file = "nofile"]}
MainStreams == {[width |-> 4, height |-> 2, sar_num |-> 1, sar_den |-> 1]}

\* Two invocations, started at any time, interleaved in any way.
Init == InitWith([r \in Runs |-> MainCmds])
Next == \E r \in Runs : Begin(r) \/ Step(r, MainStreams)
Spec == Init /\ [][Next]_vars


\* One invocation at a time: a run starts only when no other run is under way.
NoOtherRun(r) == \A q \in Runs \ {r} : pc[q] \in {"idle", "done"}
NextSeq == \E r \in Runs : (NoOtherRun(r) /\ Begin(r)) \/ Step(r, MainStreams)
SpecSeq == Init /\ [][NextSeq]_vars

\* One invocation (run 1) whose own statements always get to execute: the
\* interpreter runs the next statement whenever it can, a wait(10) returns or
\* times out, the user answers the prompt.  Nothing makes an external process
\* exit.
OneRunCmds == [r \in Runs |-> IF r = 1 THEN MainCmds ELSE {DefaultCmd}]
Coordinator(r) ==
    \/ Begin(r) \/ Versions(r) \/ CheckCache(r) \/ RunMpv(r) \/ MpvReturn(r)
    \/ Rename(r) \/ Probe(r, MainStreams) \/ Resolving(r)
    \/ PopenYuvpipe(r) \/ PopenEnc(r) \/ PopenMux(r)
    \/ CloseYuvpipeStdout(r) \/ CloseEncStdout(r)
    \/ MuxCommunicate(r) \/ YuvpipeWait(r) \/ EncWait(r)
    \/ CheckReturncodes(r) \/ KeepTempPrompt(r)
InitFair == InitWith(OneRunCmds)
NextFair == Begin(1) \/ Step(1, MainStreams)
FairSpec == InitFair /\ [][NextFair]_vars /\ WF_vars(Coordinator(1))

\* One invocation up to the resolved geometry, over every target and stream
\* within the bounds.
Targets == {None} \cup {Some(n) : n \in 0..MaxDim}
GeomCmds == {[DefaultCmd EXCEPT !.width = w, !.height = h] : w \in Targets, h \in Targets}
GeomStreams ==
    [width : 1..MaxDim, height : 1..MaxDim, sar_num : 1..MaxSar, sar_den : 1..MaxSar]
InitGeom == InitWith([r \in Runs |-> IF r = 1 THEN GeomCmds ELSE {DefaultCmd}])
NextGeom ==
    \/ Begin(1) \/ Versions(1) \/ CheckCache(1) \/ RunMpv(1) \/ MpvOpen(1)
    \/ MpvExit(1) \/ MpvReturn(1) \/ Rename(1) \/ Probe(1, GeomStreams)
    \/ Resolving(1)
GeomSpec == InitGeom /\ [][NextGeom]_vars


\* Two invocations up to the end of the extraction block, over command lines
\* that differ in the track selectors, the start time, crf and the width.
FingerprintCmds ==
    {DefaultCmd,
     [DefaultCmd EXCEPT !.vid = "1"],
     [DefaultCmd EXCEPT !.vid = "1a2", !.aid = "3"],
     [DefaultCmd EXCEPT !.vid = "1", !.aid = "2a3"],
     [DefaultCmd EXCEPT !.start = Some("None")],
     [DefaultCmd EXCEPT !.crf = 31],
     [DefaultCmd EXCEPT !.width = Some(2)]}
InitFingerprint == InitWith([r \in Runs |-> FingerprintCmds])
NextFingerprint ==
    \E r \in Runs :
        \/ Begin(r) \/ Versions(r) \/ CheckCache(r) \/ RunMpv(r) \/ MpvOpen(r)
        \/ MpvExit(r) \/ MpvReturn(r) \/ Rename(r)
FingerprintSpec == InitFingerprint /\ [][NextFingerprint]_vars


\* GeomSpec with the two streams and the target of the documented examples
\* added to the bounded inputs.
ExampleStreams ==
    {[width |-> 640, height |-> 480, sar_num |-> 2, sar_den |-> 1],
     [width |-> 1920, height |-> 1080, sar_num |-> 1, sar_den |-> 1]}
ResolverCmds == GeomCmds \cup {[DefaultCmd EXCEPT !.width = Some(960)]}
ResolverStreams == GeomStreams \cup ExampleStreams
InitResolver == InitWith([r \in Runs |-> IF r = 1 THEN ResolverCmds ELSE {DefaultCmd}])
NextResolver ==
    \/ Begin(1) \/ Versions(1) \/ CheckCache(1) \/ RunMpv(1) \/ MpvOpen(1)
    \/ MpvExit(1) \/ MpvReturn(1) \/ Rename(1) \/ Probe(1, ResolverStreams)
    \/ Resolving(1)
ResolverSpec == InitResolver /\ [][NextResolver]_vars


\* One invocation (run 1) with the data of the chain followed through its two
\* bounded pipes.  main()'s statements and each stage get to run whenever
\* they can; a stage may also fail at any time (StageExit).
InitPipes ==
    InitFrames(OneRunCmds, [r \in Runs |-> IF r = 1 THEN 0..MaxFrames ELSE {0}])
NextPipes ==
    \/ Begin(1) \/ Step(1, MainStreams)
    \/ YuvpipeStep(1) \/ EncStep(1) \/ MuxStep(1)
PipeSpec ==
    /\ InitPipes /\ [][NextPipes]_vars
    /\ WF_vars(Coordinator(1))
    /\ WF_vars(YuvpipeStep(1)) /\ WF_vars(EncStep(1)) /\ WF_vars(MuxStep(1))


\* ============================================================ properties
Stages == {"yuvpipe", "enc", "mux"}
NonZero(rc) == rc # None /\ rc[1] # 0
\* Run r has started the encode+mux phase.
InEncodeMux(r) == "yuvpipe" \in launched[r]
\* No run has begun since run r ended.
NoRunSince(r) == \A q \in Runs \ {r} : r \notin prior[q]

\* C1: in a run (one at a time) that found no file at the stable cache path,
\* a non-zero exit status of mpv ends the run Failed with exit status 1, the
\* run never renames the in-progress file, and when it ends (before any later
\* run begins) no file exists at the stable cache path.
C1_ExtractionFailureLeavesNoArtifact ==
    \A r \in Runs :
        (cache_hit[r] = "miss" /\ NonZero(returncode[r]["mpv"]))
            => /\ pc[r] = "done"
               /\ outcome[r] = "Failed"
               /\ exitcode[r] = Some(1)
               /\ ~renamed[r]
               /\ NoRunSince(r) => ~exists(temp_file(args[r]))

\* C1 witness: mpv failed after it had begun to write; the partial file is
\* left under the in-progress name and the run has ended.
C1_Witness ==
    \E r \in Runs :
        /\ pc[r] = "done" /\ returncode[r]["mpv"] = Some(1)
        /\ exists(temp_file_processing(args[r]))
        /\ ino[fs[temp_file_processing(args[r])]].data = "partial"

\* C2: a run that entered the encode+mux phase is Succeeded only if all
\* three stage processes exited with status 0 (and the coordinator read 0 from
\* each); once it has ended, a non-zero status of any one of them means it
\* ended Failed with a non-zero exit status, whatever the other two reported.
C2_SucceededOnlyIfAllStagesZero ==
    \A r \in Runs :
        InEncodeMux(r) =>
            /\ outcome[r] = "Succeeded" =>
                   \A p \in Stages : proc[r][p] = "exit0" /\ returncode[r][p] = Some(0)
            /\ (pc[r] = "done" /\ \E p \in Stages : proc[r][p] = "exit1")
                   => outcome[r] = "Failed" /\ NonZero(exitcode[r])

\* C2 witness: the encoder alone failed, the other two reported 0, and the
\* run ended Failed after reading all three statuses.
C2_Witness ==
    \E r \in Runs :
        /\ pc[r] = "done" /\ outcome[r] = "Failed"
        /\ returncode[r]["yuvpipe"] = Some(0)
        /\ returncode[r]["enc"] = Some(1)
        /\ returncode[r]["mux"] = Some(0)


\* The statements of main() after the extraction block (lines 163-257).
AfterExtraction ==
    {"probe", "resolve", "popen_yuvpipe", "popen_enc", "popen_mux", "close_yuvpipe",
     "close_enc", "communicate", "wait_yuvpipe", "wait_enc", "check_returncodes",
     "keep_prompt", "done"}
PastCacheCheck(r) == pc[r] \notin {"idle", "versions", "check_cache"}
SameTempFile(q, r) == temp_file(args[q]) = temp_file(args[r])

\* C3 (as amended): a run that finds a file at the stable cache path when it
\* tests os.path.exists never launches mpv and goes straight on to the probe;
\* a run that begins after a Succeeded run with the same temp_file whose user
\* kept the temp file finds it and does not launch mpv.
C3_CacheHitSkipsExtraction ==
    /\ \A r \in Runs :
           cache_hit[r] = "hit" =>
               /\ "mpv" \notin launched[r]
               /\ proc[r]["mpv"] = "none"
               /\ pc[r] \in AfterExtraction
    /\ \A q, r \in Runs :
           (q \in prior[r] /\ outcome[q] = "Succeeded" /\ disposal[q] = "kept"
                /\ SameTempFile(q, r) /\ PastCacheCheck(r))
               => cache_hit[r] = "hit" /\ "mpv" \notin launched[r]

\* C3 witness: the second run began after a Succeeded run that kept its
\* temp file, hit the cache and went through to the end without mpv.
C3_Witness ==
    \E q, r \in Runs :
        /\ q \in prior[r] /\ outcome[q] = "Succeeded" /\ disposal[q] = "kept"
        /\ SameTempFile(q, r)
        /\ cache_hit[r] = "hit" /\ pc[r] = "done" /\ outcome[r] = "Succeeded"
        /\ "mpv" \notin launched[r]

\* C3 as stated: a run that begins after a Succeeded run with the same
\* temp_file never launches mpv.
C3_SecondRunNeverExtracts ==
    \A q, r \in Runs :
        (q \in prior[r] /\ outcome[q] = "Succeeded" /\ SameTempFile(q, r))
            => "mpv" \notin launched[r]

\* C4 as stated: once a run that started the encode+mux phase has reached its
\* terminal state, wait/communicate has been called on each of the three
\* stage handles.
C4_AllHandlesWaitedOn ==
    \A r \in Runs :
        (InEncodeMux(r) /\ outcome[r] # "none") => Stages \subseteq waited[r]

\* C5 as stated: the run reaches a terminal state whatever the external
\* processes do.
C5_RunTerminates == <>(pc[1] = "done")

\* C6 as stated: the stable cache path never names a file that some mpv is
\* still writing.
C6_StableNameNeverBeingWritten ==
    \A r \in Runs : ~BeingWritten(temp_file(args[r]))

\* The fields of the request that the intermediate depends on.
SameCacheFields(a, b) ==
    /\ a.input_file = b.input_file
    /\ a.vid = b.vid /\ a.aid = b.aid /\ a.sid = b.sid
    /\ a.start = b.start /\ a.end = b.end
    /\ a.audio_bitrate = b.audio_bitrate

\* C7 as stated: a run that begins while the temp file kept by an earlier
\* Succeeded run is still there, and whose request differs from that run's
\* only in crf, preset, width or height, does not launch mpv.
C7_EncodeOnlyFieldsReuseArtifact ==
    \A q, r \in Runs :
        (q \in prior[r] /\ outcome[q] = "Succeeded" /\ disposal[q] = "kept"
            /\ SameCacheFields(args[q], args[r]))
            => SameTempFile(q, r) /\ "mpv" \notin launched[r]


\* Run r has resolved its geometry (lines 169-190 are behind it).
Resolved(r) == pc[r] = "popen_yuvpipe"

\* C8: for every stream, sample aspect ratio and target within the bounds,
\* the resolved width is at most the target width when one is given and the
\* resolved height at most the target height when one is given.
C8_ResolvedSizeWithinTargets ==
    \A r \in Runs :
        Resolved(r) =>
            /\ TruthyInt(args[r].width) => geom[r].video_width <= args[r].width[1]
            /\ TruthyInt(args[r].height) => geom[r].video_height <= args[r].height[1]

\* C8 witness: both targets given on a stream with non-square samples; the
\* height target binds, the width ends strictly inside its target and both
\* dimensions differ from the stream's.
C8_Witness ==
    \E r \in Runs :
        /\ Resolved(r)
        /\ TruthyInt(args[r].width) /\ TruthyInt(args[r].height)
        /\ video[r][1].sar_num # video[r][1].sar_den
        /\ geom[r].video_height = args[r].height[1]
        /\ geom[r].video_width < args[r].width[1]
        /\ geom[r].video_width # video[r][1].width
        /\ geom[r].video_height # video[r][1].height

\* Run r ended Failed in the encode+mux phase (a non-zero status, or a stage
\* that outlived its wait).
FailedInEncodeMux(r) ==
    /\ pc[r] = "done" /\ outcome[r] = "Failed"
    /\ error[r] \in {"Error during encode", "TimeoutExpired"}

\* C9: with one run at a time, a run that ends Failed in the encode+mux phase
\* leaves the temp file at the stable cache path (until a later run begins),
\* and the run that begins next with the same temp_file finds it and does not
\* launch mpv.
C9_EncodeFailureKeepsArtifact ==
    \A r \in Runs :
        FailedInEncodeMux(r) =>
            /\ NoRunSince(r) => exists(temp_file(args[r]))
            /\ \A q \in Runs :
                   (r \in prior[q] /\ SameTempFile(q, r) /\ PastCacheCheck(q))
                       => cache_hit[q] = "hit" /\ "mpv" \notin launched[q]

\* C9 witness: a run extracted its own temp file, failed in the encoder, and
\* the next run with the same temp_file hit the cache.
C9_Witness ==
    \E q, r \in Runs :
        /\ FailedInEncodeMux(r) /\ renamed[r] /\ returncode[r]["enc"] = Some(1)
        /\ r \in prior[q] /\ SameTempFile(q, r)
        /\ cache_hit[q] = "hit" /\ pc[q] = "resolve"

\* C10: when wait(10) on the front-end or on the encoder, called after the
\* muxer has been reaped, ends without an exit status (the process outlived
\* the 10 seconds), the run has ended Failed with exit status 1, the status
\* line 244 gives a non-zero stage.
C10_HungStageEndsRunFailed ==
    \A r \in Runs : \A p \in {"yuvpipe", "enc"} :
        (p \in waited[r] /\ returncode[r][p] = None)
            => /\ "mux" \in waited[r]
               /\ pc[r] = "done"
               /\ outcome[r] = "Failed"
               /\ exitcode[r] = Some(1)

\* C10 witness: the muxer and the front-end exited with 0, the encoder was
\* still running when enc.wait(10) gave up, and the run has ended.
C10_Witness ==
    \E r \in Runs :
        /\ returncode[r]["mux"] = Some(0) /\ returncode[r]["yuvpipe"] = Some(0)
        /\ "enc" \in waited[r] /\ returncode[r]["enc"] = None
        /\ proc[r]["enc"] = "running"
        /\ pc[r] = "done" /\ error[r] = "TimeoutExpired"


\* The step is one of run r's: a statement of its main() or a move of one of
\* its processes.
Actor(r) == pc'[r] # pc[r] \/ proc'[r] # proc[r]
\* The step removes the file at path, puts another file there or changes the
\* contents of the file that is there.
Changed(path) ==
    \/ path \notin DOMAIN fs'
    \/ fs'[path] # fs[path]
    \/ ino'[fs[path]].data # ino[fs[path]].data

\* C11 as stated: no step of a run removes, replaces or rewrites the file at a
\* stable cache path unless that file was created by the run's own extraction.
C11_SharedArtifactReadOnly ==
    [][\A r, q \in Runs :
           (Actor(r) /\ exists(temp_file(args[q])) /\ Changed(temp_file(args[q])))
               => fs[temp_file(args[q])] = r]_vars

\* Run r's mpv exited with status 0 and the run is past its os.rename.
ExtractedOk(r) == returncode[r]["mpv"] = Some(0) /\ pc[r] # "rename"

\* C12 as stated: when two runs with the same temp_file have both run mpv to
\* a zero exit status, the os.rename of each has succeeded and each has gone
\* on to the probe.
C12_BothRenamesSucceed ==
    \A q, r \in Runs :
        (q # r /\ SameTempFile(q, r) /\ ExtractedOk(q) /\ ExtractedOk(r))
            => renamed[q] /\ renamed[r]

\* C13 as stated: two runs that have computed their temp file names have the
\* same name exactly when their requests agree on the source path, the three
\* track selectors, start, end and the audio bitrate.
C13_FingerprintDistinguishesFields ==
    \A q, r \in Runs :
        (PastCacheCheck(q) /\ PastCacheCheck(r))
            => (SameCacheFields(args[q], args[r]) <=> SameTempFile(q, r))

\* The reference resolver, from the definition of rounding rather than from
\* its computation: the integer nearest to n/d (the even one of two).
Abs(x) == IF x < 0 THEN 0 - x ELSE x
Nearest(n, d) ==
    CHOOSE k \in 0..(n \div d + 1) :
        /\ \A j \in 0..(n \div d + 1) : Abs(k * d - n) <= Abs(j * d - n)
        /\ 2 * Abs(k * d - n) = d => k % 2 = 0
\* The smaller of the fractions a/b and c/d, as <<numerator, denominator>>.
MinRatio(a, b, c, d) == IF a * d <= c * b THEN <<a, b>> ELSE <<c, d>>
Reference(v, width, height) ==
    LET w1 == IF v.sar_num > v.sar_den
              THEN Nearest(v.width * v.sar_num, v.sar_den) ELSE v.width
        h1 == IF v.sar_num < v.sar_den
              THEN Nearest(v.height * v.sar_den, v.sar_num) ELSE v.height
        given == TruthyInt(width) \/ TruthyInt(height)
        f == MinRatio(IF TruthyInt(width) THEN width[1] ELSE w1, w1,
                      IF TruthyInt(height) THEN height[1] ELSE h1, h1)
    IN [video_width |-> IF given THEN Nearest(w1 * f[1], f[2]) ELSE w1,
        video_height |-> IF given THEN Nearest(h1 * f[1], f[2]) ELSE h1,
        scale |-> v.sar_num # v.sar_den \/ given]

\* C14: for every stream, sample aspect ratio and target within the bounds
\* the resolved geometry is that of the reference algorithm; a 640x480 stream
\* with sample aspect ratio 2:1 and no target resolves to 1280x480, a
\* 1920x1080 stream with 1:1 and target width 960 to 960x540, both with scale.
C14_ResolverEqualsReference ==
    \A r \in Runs :
        Resolved(r) =>
            /\ geom[r] = Reference(video[r][1], args[r].width, args[r].height)
            /\ (/\ video[r][1] = [width |-> 640, height |-> 480, sar_num |-> 2, sar_den |-> 1]
                /\ args[r].width = None /\ args[r].height = None)
                   => geom[r] = [video_width |-> 1280, video_height |-> 480, scale |-> TRUE]
            /\ (/\ video[r][1] = [width |-> 1920, height |-> 1080, sar_num |-> 1, sar_den |-> 1]
                /\ args[r].width = Some(960) /\ args[r].height = None)
                   => geom[r] = [video_width |-> 960, video_height |-> 540, scale |-> TRUE]

\* C14 witness: the second example has been resolved.
C14_Witness ==
    \E r \in Runs :
        /\ Resolved(r)
        /\ video[r][1] = [width |-> 1920, height |-> 1080, sar_num |-> 1, sar_den |-> 1]
        /\ args[r].width = Some(960) /\ args[r].height = None
        /\ geom[r].video_width = 960 /\ geom[r].video_height = 540

\* What makes the resolver scale: a sample aspect ratio other than 1, or a
\* target that line 185 sees (a target of 0 is accepted and counts as none).
ScalingCalledFor(v, a) ==
    v.sar_num # v.sar_den \/ TruthyInt(a.width) \/ TruthyInt(a.height)

\* C15: the resolved scale flag is true exactly when the sample aspect ratio
\* is not 1 or a target width or height is given; when neither is the case
\* the resolved width and height are the stream's and the front-end command
\* has no scale filter (and it has one whenever the flag is true).
C15_PassThroughWithoutScaling ==
    \A r \in Runs :
        Resolved(r) =>
            LET v == video[r][1]
                cmd == ffmpeg_yuvpipe_cmd(args[r], geom[r])
            IN /\ geom[r].scale <=> ScalingCalledFor(v, args[r])
               /\ (cmd.vf # None) <=> geom[r].scale
               /\ ~ScalingCalledFor(v, args[r]) =>
                      /\ geom[r].video_width = v.width
                      /\ geom[r].video_height = v.height
                      /\ svtav1_cmd(args[r], geom[r]).w = v.width
                      /\ svtav1_cmd(args[r], geom[r]).h = v.height

\* C15 witness: square samples and no target; the stream's own size has been
\* resolved with the flag false.
C15_Witness ==
    \E r \in Runs :
        /\ Resolved(r)
        /\ video[r][1].sar_num = video[r][1].sar_den
        /\ args[r].width = None /\ args[r].height = None
        /\ geom[r] = [video_width |-> video[r][1].width,
                      video_height |-> video[r][1].height, scale |-> FALSE]
        /\ video[r][1].width # video[r][1].height

VersionQueries == {"mpv --version", "ffmpeg -version", "SvtAv1EncApp --version"}

\* C16: a run whose input is not a regular file ends with exit status 2
\* without having launched any process; a run whose mpv returned a non-zero
\* status, or whose rename failed, has launched neither ffprobe nor any of the
\* three stages; a run whose probe failed has launched none of the stages.
C16_NoLaunchAfterFailure ==
    \A r \in Runs :
        /\ (pc[r] # "idle" /\ args[r].input_file \notin RegularFiles)
               => pc[r] = "done" /\ exitcode[r] = Some(2) /\ launched[r] = {}
        /\ (NonZero(returncode[r]["mpv"]) \/ (returncode[r]["mpv"] = Some(0)
                                               /\ pc[r] = "done" /\ ~renamed[r]))
               => pc[r] = "done" /\ launched[r] = VersionQueries \cup {"mpv"}
        /\ (pc[r] = "done" /\ error[r] = "KeyError")
               => launched[r] \cap Stages = {}

\* C16 witness: mpv failed, the run ended with exit status 1 and only the
\* version queries and mpv were ever launched; the other run's input was not
\* a file and it ended without a launch.
C16_Witness ==
    \E q, r \in Runs :
        /\ pc[r] = "done" /\ returncode[r]["mpv"] = Some(1) /\ exitcode[r] = Some(1)
        /\ launched[r] = VersionQueries \cup {"mpv"}
        /\ pc[q] = "done" /\ error[q] = "not a file" /\ launched[q] = {}

\* C17 (as amended): with one run at a time, the keep-or-delete decision is
\* taken only in a run that has printed "Encode complete"; a Succeeded run
\* that ends with exit status 0 leaves the temp file at the stable cache path
\* exactly when its user answered y, and has removed it otherwise; a run that
\* ends Failed takes no decision and removes nothing.
C17_SucceededRunDisposesArtifact ==
    \A r \in Runs :
        /\ disposal[r] # "none" => pc[r] = "done" /\ outcome[r] = "Succeeded"
        /\ (pc[r] = "done" /\ outcome[r] = "Succeeded" /\ exitcode[r] = Some(0))
               => /\ disposal[r] \in {"deleted", "kept"}
                  /\ NoRunSince(r) =>
                         (exists(temp_file(args[r])) <=> disposal[r] = "kept")
        /\ (pc[r] = "done" /\ outcome[r] = "Failed")
               => /\ disposal[r] = "none"
                  /\ (NoRunSince(r) /\ (renamed[r] \/ cache_hit[r] = "hit"))
                         => exists(temp_file(args[r]))

\* C17 witness: a run extracted its temp file, succeeded, the user pressed
\* Enter and the file is gone.
C17_Witness ==
    \E r \in Runs :
        /\ pc[r] = "done" /\ outcome[r] = "Succeeded" /\ renamed[r]
        /\ disposal[r] = "deleted" /\ ~exists(temp_file(args[r]))

\* C17 as stated: once a run has ended (and before another begins), either
\* its user chose to keep the temp file or no file is at the stable cache path.
C17_ArtifactDeletedAtEnd ==
    \A r \in Runs :
        (pc[r] = "done" /\ outcome[r] # "none" /\ NoRunSince(r))
            => disposal[r] = "kept" \/ ~exists(temp_file(args[r]))

\* main() is at, or past, its first blocking call of the encode+mux phase
\* (mux.communicate(), line 235).
AtOrPastFirstWait(r) ==
    \/ pc[r] \in {"communicate", "wait_yuvpipe", "wait_enc", "check_returncodes",
                  "keep_prompt"}
    \/ waited[r] \cap Stages # {}

\* C18: when main() is at or past its first blocking call of the encode+mux
\* phase, all three stages have been started and main holds neither of the
\* two pipe read ends any more; the front-end or the encoder is waited on only
\* after the muxer has been started and waited on.
C18_WaitsAfterStartsAndCloses ==
    \A r \in Runs :
        /\ AtOrPastFirstWait(r) => Stages \subseteq launched[r] /\ pipe_fds[r] = {}
        /\ \A p \in {"yuvpipe", "enc"} :
               p \in waited[r] => "mux" \in launched[r] /\ "mux" \in waited[r]

\* C18 witness: main() is blocked in mux.communicate() with all three stages
\* running, both pipe ends closed and no stage waited on yet.
C18_Witness ==
    \E r \in Runs :
        /\ pc[r] = "communicate" /\ waited[r] \cap Stages = {}
        /\ \A p \in Stages : proc[r][p] = "running"
        /\ pipe_fds[r] = {}

\* The phase a statement of main() belongs to: 0 Idle, 1 Extracting,
\* 2 Probing, 3 Resolving, 4 EncodingAndMuxing, 5 terminal.
Phase(label) ==
    CASE label \in {"idle", "versions", "check_cache"} -> 0
      [] label \in {"run_mpv", "wait_mpv", "rename"} -> 1
      [] label = "probe" -> 2
      [] label = "resolve" -> 3
      [] label \in {"popen_yuvpipe", "popen_enc", "popen_mux", "close_yuvpipe",
                    "close_enc", "communicate", "wait_yuvpipe", "wait_enc",
                    "check_returncodes"} -> 4
      [] OTHER -> 5

\* A run is in the phase if it has reached it.
PhaseOrder ==
    \A r \in Runs :
        /\ Phase(pc[r]) = 1 => cache_hit[r] = "miss"
        /\ "mpv" \in launched[r] => cache_hit[r] = "miss"
        /\ "ffprobe" \in launched[r] =>
               \/ cache_hit[r] = "hit" /\ "mpv" \notin launched[r]
               \/ /\ proc[r]["mpv"] = "exit0" /\ returncode[r]["mpv"] = Some(0)
                  /\ renamed[r]
        /\ Phase(pc[r]) \in {3, 4} => "ffprobe" \in launched[r] /\ video[r] # None
        /\ launched[r] \cap Stages # {} =>
               /\ "ffprobe" \in launched[r] /\ video[r] # None
               /\ geom[r] = Resolve(video[r][1], args[r].width, args[r].height)

\* C20: a run never goes back to an earlier phase and enters a phase only from
\* the one before it (from Idle to Probing on a cache hit, to the terminal
\* state from any phase); ffprobe is launched only after a cache hit or after
\* mpv exited with status 0 and its output was renamed; a stage is launched
\* only after the probe has returned a stream and the geometry was resolved.
C20_PhasesInOrder ==
    /\ []PhaseOrder
    /\ [][\A r \in Runs :
              LET old == Phase(pc[r])
                  new == Phase(pc'[r])
              IN \/ new = old
                 \/ new = old + 1
                 \/ old = 0 /\ new = 2 /\ cache_hit'[r] = "hit"
                 \/ new = 5]_vars

\* C20 witness: a run that went through every phase (extraction included) and
\* ended Succeeded.
C20_Witness ==
    \E r \in Runs :
        /\ pc[r] = "done" /\ outcome[r] = "Succeeded"
        /\ cache_hit[r] = "miss" /\ renamed[r]
        /\ {"mpv", "ffprobe"} \cup Stages \subseteq launched[r]

\* A live stage that can do nothing until another process acts on a pipe.
Blocked(r, p) ==
    /\ Alive(r, p)
    /\ CASE p = "yuvpipe" ->
              pipes[r].frames > 0 /\ YuvReaders(r) /\ pipes[r].yuv = PipeCap
         [] p = "enc" ->
              \/ pipes[r].held = 0 /\ pipes[r].yuv = 0 /\ Alive(r, "yuvpipe")
              \/ pipes[r].held = 1 /\ IvfReaders(r) /\ pipes[r].ivf = PipeCap
         [] OTHER -> pipes[r].ivf = 0 /\ Alive(r, "enc")
\* main() is in one of its blocking calls of lines 235-237.
Waiting(r) == pc[r] \in {"communicate", "wait_yuvpipe", "wait_enc"}
NoStall ==
    \A r \in Runs :
        (Waiting(r) /\ \E p \in Stages : Alive(r, p))
            => \E p \in Stages : Alive(r, p) /\ ~Blocked(r, p)
AllStagesExited(r) == \A p \in Stages : HasExited(proc[r][p])

\* C19: with pipes of PipeCap frames and every stage and main() scheduled
\* fairly, main() is never in a blocking call while every live stage is blocked
\* on a pipe (also when a stage, the muxer say, exits early); once the chain
\* has been started all three stages come to exit, the encoder after the
\* front-end has gone and the muxer after the encoder, and the run ends.
C19_ChainNeverStalls ==
    /\ []NoStall
    /\ InEncodeMux(1) ~> AllStagesExited(1)
    /\ (InEncodeMux(1) /\ HasExited(proc[1]["yuvpipe"])) ~> HasExited(proc[1]["enc"])
    /\ (InEncodeMux(1) /\ HasExited(proc[1]["enc"])) ~> HasExited(proc[1]["mux"])
    /\ InEncodeMux(1) ~> (pc[1] = "done")

\* C19 witness: the muxer exited early while main() waits for it; both pipes
\* are full, the encoder holds a packet and the front-end has frames left.
C19_Witness ==
    /\ pc[1] = "communicate" /\ proc[1]["mux"] = "exit1"
    /\ Alive(1, "enc") /\ Alive(1, "yuvpipe")
    /\ pipes[1].ivf = PipeCap /\ pipes[1].held = 1
    /\ pipes[1].yuv = PipeCap /\ pipes[1].frames > 0

\* A target that is absent or at least 1.
PositiveOrNone(o) == o = None \/ o[1] >= 1

\* C21 as stated: for every stream with positive width and height, positive
\* sample aspect ratio and targets that are absent or positive, the width and
\* height put in the scale filter and in the encoder's -w/-h are at least 1.
C21_ResolvedDimensionsPositive ==
    \A r \in Runs :
        (Resolved(r) /\ PositiveOrNone(args[r].width) /\ PositiveOrNone(args[r].height)
            /\ video[r][1].width >= 1 /\ video[r][1].height >= 1
            /\ video[r][1].sar_num >= 1 /\ video[r][1].sar_den >= 1)
            => LET enc == svtav1_cmd(args[r], geom[r])
                   vf == ffmpeg_yuvpipe_cmd(args[r], geom[r]).vf
               IN /\ enc.w >= 1 /\ enc.h >= 1
                  /\ vf # None => vf[1].w >= 1 /\ vf[1].h >= 1

====
